---- MODULE Spec2Model ----
(***************************************************************************)
(* TagTimeLog (src/script/pytagtime.py): loading a TagTime log.            *)
(*                                                                         *)
(* One behaviour of the model is one construction of a TagTimeLog:         *)
(* __init__ stores the options, _parse_file reads the log line by line     *)
(* (one ParseLine step per iteration of the loop at line 112), and Finish  *)
(* is the straight-line code that follows the loop: the pruning of         *)
(* _parse_file (155-161) and the sort, date-range selection, range         *)
(* description and day normalizer of __init__ (70-91).                     *)
(*                                                                         *)
(* Time is in seconds since the epoch, as in the log.  Local time is taken *)
(* to be UTC.  Weights are exact rationals: a stored weight v stands for   *)
(* v / WSum seconds of duration, where WSum is the sum the kernel weights  *)
(* are normalized by (line 109); the day normalizer is kept in sevenths.   *)
(***************************************************************************)
EXTENDS Integers, Sequences, FiniteSets, TLC

VARIABLES
    conf,            \* the constructor's options (lines 51-63) and the jitter drawn at line 107
    startend,        \* the startend list; <<>> stands for None, <<t>> for a datetime
    pc,              \* "parse" (in the loop of line 112), "loaded", "raised"
    exc,             \* which statement raised, "none" otherwise
    tag,             \* the local `tag` of _parse_file (lines 129-133); <<>> while unbound
    D,               \* D[t]: the timestamps appended for tag t (line 151), each with its ping
    V,               \* V[t]: the weights appended for tag t (line 152)
    pings,           \* history: the lines read so far and what each resolved to
    selfD,           \* self.D, the data frame (lines 161, 76, 80)
    rng,             \* self.rng (line 82) as <<first date, last date>>
    n_days,          \* n_days (line 89)
    day_normalizer,  \* self.day_normalizer (line 91), in sevenths of a day
    now,             \* the clock: what datetime.datetime.now() returns (line 73)
    default_startend,\* the list that is the default value of startend (line 46)
    loads,           \* the number of TagTimeLog constructions started
    raw,             \* line0 (line 112), a sequence of characters
    fields,          \* fields (line 117), a sequence of tokens
    out,             \* what the last analysis operation handed to its plot
    nops             \* the number of analysis operations run

\* the variables of the clock and of the constructor's default argument
clockvars == <<now, default_startend, loads>>

\* the variables of the tokenizer
lexvars == <<raw, fields>>

\* the variables of the analysis operations
anavars == <<out, nops>>

vars == <<conf, startend, pc, exc, tag, D, V, pings, selfD, rng, n_days, day_normalizer,
          clockvars, lexvars, anavars>>

(***************************************************************************)
(* Bounds of the model.                                                    *)
(***************************************************************************)
MaxLines == 3

(***************************************************************************)
(* Tags.  TagNames lists the tag names in lexicographic order, the order   *)
(* np.unique sorts them in.                                                *)
(***************************************************************************)
TagNames == <<"meeting", "prog", "rest", "work">>

Range(s) == {s[i] : i \in DOMAIN s}

TagSet == Range(TagNames)

Rank(t) == CHOOSE i \in DOMAIN TagNames : TagNames[i] = t

\* np.unique (line 125): the distinct elements, sorted.
Unique(s) ==
    LET S == Range(s)
    IN  [j \in 1..Cardinality(S) |->
            CHOOSE t \in S : Cardinality({u \in S : Rank(u) < Rank(t)}) = j - 1]

(***************************************************************************)
(* Calendar arithmetic of datetime (date(), hour, weekday(), timedelta).   *)
(***************************************************************************)
DaySecs == 24 * 3600

Date(ts) == ts \div DaySecs

Hour(ts) == (ts % DaySecs) \div 3600

\* Monday is 0; day 0 of the epoch (1970-01-01) is a Thursday.
Weekday(ts) == (Date(ts) + 3) % 7

(***************************************************************************)
(* The smoothing kernel (lines 101-109), for interval = 0.75 h and         *)
(* sigma = 1/8, in seconds of offset * interval.                           *)
(***************************************************************************)
Interval == 2700

\* sigma * interval = 337.5 s is not whole; the model uses 2 sigma and 4 sigma.
TwoSigma == Interval \div 4

offsetinterval == (2 * TwoSigma + Interval) \div 15

\* np.arange(lo, hi, step)
Arange(lo, hi, step) ==
    [i \in 1..((hi - lo + step - 1) \div step) |-> lo + (i - 1) * step]

\* The draws of np.random.uniform(-0.1, 0.1) * interval the model considers.
Jitters == {<<0, 0, 0, 0, 0>>, <<135, 0, -135, 0, 135>>}

\* round(1000 * exp(-o^2 / sigma^2)) for an offset o of k * 135 s (o / sigma = 0.4 k)
ExpTable == <<1000, 852, 527, 237, 77, 18, 3>>

Abs(x) == IF x < 0 THEN -x ELSE x

KernelWeight(o) ==
    LET k == Abs(o) \div 135
    IN  IF k + 1 \in DOMAIN ExpTable THEN ExpTable[k + 1] ELSE 0

offsetlist ==
    IF conf.smooth
    THEN LET base == Arange(-TwoSigma, TwoSigma, offsetinterval)
         IN  [i \in DOMAIN base |-> base[i] + conf.jitter[i]]
    ELSE <<0>>

\* The numerators of weights; line 109 divides every one of them by WSum.
weights == [i \in DOMAIN offsetlist |-> KernelWeight(offsetlist[i])]

RECURSIVE SumSeq(_)
SumSeq(s) == IF s = <<>> THEN 0 ELSE Head(s) + SumSeq(Tail(s))

WSum == SumSeq(weights)

(***************************************************************************)
(* The inputs: options and log lines.                                      *)
(***************************************************************************)
NoMap == [t \in {} |-> "work"]

\* --map-tags work:meeting,prog
WorkMap == [t \in {"meeting", "prog"} |-> "work"]

\* Sun 2001-09-09 01:46:40, 02:31:40, 23:58:20; Mon 2001-09-10 00:05:00;
\* Mon 2001-09-24 00:05:00
Stamps == {1000000000, 1000002700, 1000079900, 1000080300, 1001289900}

Monday == Date(1000080300)

\* datetime.datetime.now() at line 73: Tue 2001-10-02 00:00:00, after every
\* ping of the log
Now == (Monday + 22) * DaySecs

TagLists == {<<>>, <<"work">>, <<"rest">>, <<"work", "meeting">>, <<"rest", "meeting">>}

BlankLine == [blank |-> TRUE, ts |-> 0, tags |-> <<>>]

Lines == {[blank |-> FALSE, ts |-> s, tags |-> tl] : s \in Stamps, tl \in TagLists}
            \cup {BlankLine}

\* bounds that fall on smoothed copies: 135 s after the third timestamp of
\* the log and 135 s before the fifth
BetweenCopies == <<<<1000079900 + 135>>, <<1001289900 - 135>>>>

AllConfigs ==
    [multitag : {"first", "split", "double"},
     smooth : BOOLEAN,
     jitter : Jitters,
     skiptags : {{}, {"rest"}},
     maptags : {NoMap, WorkMap},
     skipweekdays : {{}, {5, 6}},
     includehours : {<<0, 24>>, <<0, 23>>},
     dropdays : {{}, {Monday}},
     obfuscate : {FALSE},
     startend : {<<<<>>, <<>>>>, <<<<1000080300>>, <<1001289900>>>>, BetweenCopies}]

NoTagOptions(c) == c.skiptags = {} /\ c.maptags = NoMap

NoCalendarOptions(c) ==
    /\ c.skipweekdays = {}
    /\ c.includehours = <<0, 24>>
    /\ c.dropdays = {}
    /\ c.startend = <<<<>>, <<>>>>

\* At most one calendar filter at a time, and tag options only without them.
OneFilter(c) ==
    Cardinality({f \in {"w", "h", "d"} :
        \/ f = "w" /\ c.skipweekdays # {}
        \/ f = "h" /\ c.includehours # <<0, 24>>
        \/ f = "d" /\ c.dropdays # {}}) <= 1

Configs ==
    {c \in AllConfigs :
        /\ ~c.smooth => c.jitter = <<0, 0, 0, 0, 0>>
        /\ NoTagOptions(c) \/ NoCalendarOptions(c)
        /\ OneFilter(c)
        /\ c.startend = BetweenCopies =>
              /\ c.smooth /\ c.jitter = <<0, 0, 0, 0, 0>>
              /\ NoTagOptions(c)
              /\ c.skipweekdays = {} /\ c.includehours = <<0, 24>> /\ c.dropdays = {}}

NoFrame == [columns |-> {}, index |-> <<>>, cells |-> {}]

NoOut == [op |-> "none", status |-> "none", tags |-> <<>>, other |-> FALSE, frame |-> NoFrame]

\* no line is being tokenized, no analysis has run
Idle ==
    /\ raw = <<>>
    /\ fields = <<>>
    /\ out = NoOut
    /\ nops = 0

Init ==
    /\ conf \in Configs
    /\ Idle
    /\ now = Now
    /\ default_startend = <<<<>>, <<>>>>
    /\ loads = 1
    /\ startend = conf.startend
    /\ pc = "parse"
    /\ exc = "none"
    /\ tag = <<>>
    /\ D = [t \in TagSet |-> <<>>]
    /\ V = [t \in TagSet |-> <<>>]
    /\ pings = <<>>
    /\ selfD = NoFrame
    /\ rng = <<>>
    /\ n_days = 0
    /\ day_normalizer = 0

(***************************************************************************)
(* _parse_file, one iteration of the loop over the lines (112-152).        *)
(***************************************************************************)
\* lines 124-125: drop the excluded tags, then np.unique
Excluded(tags) == Unique(SelectSeq(tags, LAMBDA x : x \notin conf.skiptags))

MapTag(t) == IF t \in DOMAIN conf.maptags THEN conf.maptags[t] ELSE t

\* lines 129-131: the value of `tag` when the for loop ends; the loop leaves
\* it as it was when there is nothing to iterate over.
TagAfterLoop(tags, tag0) ==
    IF tags = <<>> THEN tag0 ELSE <<MapTag(tags[Len(tags)])>>

\* lines 127-134: the `if tag not in tags2` of line 132 runs once, after the loop.
Remap(tags, tag0) ==
    IF DOMAIN conf.maptags # {} THEN TagAfterLoop(tags, tag0) ELSE tags

\* lines 136-137
Policy(tags) ==
    IF conf.multitag = "first" /\ Len(tags) > 1 THEN <<tags[1]>> ELSE tags

\* lines 140-142 without the division of line 142
DurationUnsplit(tags) == Interval

\* lines 140-142
Duration(tags) ==
    IF conf.multitag = "split" THEN Interval \div Len(tags) ELSE Interval

\* lines 146-150 with the hour endHour let through
PassesInclusiveEnd(dtx) ==
    /\ Weekday(dtx) \notin conf.skipweekdays
    /\ ~(Hour(dtx) < conf.includehours[1] \/ Hour(dtx) > conf.includehours[2])

\* lines 146-150: TRUE when the sample at dtx is stored
Passes(dtx) ==
    /\ Weekday(dtx) \notin conf.skipweekdays
    /\ ~(Hour(dtx) < conf.includehours[1] \/ Hour(dtx) >= conf.includehours[2])

\* the offsets of the kernel whose sample is stored, in the order of line 144
Kept(dt) ==
    SelectSeq([k \in DOMAIN offsetlist |-> k],
              LAMBDA k : Passes(dt + offsetlist[k]))

NewD(dt, n) ==
    LET kept == Kept(dt)
    IN  [j \in DOMAIN kept |-> [dtx |-> dt + offsetlist[kept[j]], ping |-> n]]

NewV(dt, duration) ==
    LET kept == Kept(dt)
    IN  [j \in DOMAIN kept |-> weights[kept[j]] * duration]

\* the timestamp of the last ping read (0 before the first): TagTime appends
\* its pings in time order, so the timestamps of a log increase
LastStamp ==
    LET S == {pings[i].line.ts : i \in DOMAIN pings} \cup {0}
    IN  CHOOSE m \in S : \A x \in S : x <= m

Entry(line, outcome, excl, resolved, tags) ==
    [line |-> line, outcome |-> outcome, excl |-> excl,
     resolved |-> resolved, tags |-> tags]

ParseLine(line) ==
    /\ pc = "parse"
    /\ Len(pings) < MaxLines
    /\ line.blank \/ line.ts > LastStamp
    /\ UNCHANGED <<conf, startend, selfD, rng, n_days, day_normalizer>>
    /\ UNCHANGED <<clockvars, lexvars, anavars>>
    /\ LET n == Len(pings) + 1
           excl == Excluded(line.tags)
           after == TagAfterLoop(excl, tag)
           resolved == Remap(excl, tag)
           tags == Policy(resolved)
       IN  IF line.blank
           THEN \* line 118: int('') raises ValueError
                /\ pc' = "raised"
                /\ exc' = "ValueError at line 118"
                /\ pings' = Append(pings, Entry(line, "raised", <<>>, <<>>, <<>>))
                /\ UNCHANGED <<tag, D, V>>
           ELSE IF Date(line.ts) \in conf.dropdays
           THEN \* lines 119-120
                /\ pings' = Append(pings, Entry(line, "dropped", <<>>, <<>>, <<>>))
                /\ UNCHANGED <<pc, exc, tag, D, V>>
           ELSE IF DOMAIN conf.maptags # {} /\ after = <<>>
           THEN \* line 132 reads `tag` before any iteration has bound it
                /\ pc' = "raised"
                /\ exc' = "UnboundLocalError at line 132"
                /\ pings' = Append(pings, Entry(line, "raised", excl, <<>>, <<>>))
                /\ UNCHANGED <<tag, D, V>>
           ELSE /\ tag' = IF DOMAIN conf.maptags # {} THEN after ELSE tag
                /\ D' = [t \in TagSet |->
                            IF t \in Range(tags) THEN D[t] \o NewD(line.ts, n) ELSE D[t]]
                /\ V' = [t \in TagSet |->
                            IF t \in Range(tags)
                            THEN V[t] \o NewV(line.ts, Duration(tags)) ELSE V[t]]
                /\ pings' = Append(pings, Entry(line, "ok", excl, resolved, tags))
                /\ UNCHANGED <<pc, exc>>

(***************************************************************************)
(* The end of the load: _parse_file 153-161, then __init__ 70-91.          *)
(***************************************************************************)
\* lines 155-158 with the test of line 156 off by one
PrunedBelowThree(d) == {f \in TagSet : ~(Len(d[f]) <= 2)}

\* lines 155-158: the keys of D that are kept
Pruned(d) == {f \in TagSet : ~(Len(d[f]) <= 1)}

\* the non-empty cells of pd.DataFrame(D), line 161: one for every sample of
\* a kept tag
CellsOf(d, v, columns) ==
    UNION {{[dtx |-> d[f][i].dtx, tag |-> f, v |-> v[f][i], ping |-> d[f][i].ping] :
                i \in DOMAIN d[f]} : f \in columns}

\* DataFrame.sort() (line 76) orders the rows by their index label.
SortLabels(S) ==
    [i \in 1..Cardinality(S) |->
        CHOOSE x \in S : Cardinality({y \in S : y < x}) = i - 1]

\* Index.searchsorted(value) with side 'right'
searchsortedRight(index, value) == Cardinality({i \in DOMAIN index : index[i] <= value})

\* Index.searchsorted(value), side 'left', on a sorted index; 0-based
searchsorted(index, value) == Cardinality({i \in DOMAIN index : index[i] < value})

\* .ix[start:end] (line 80): the rows at positions start .. end - 1
Slice(frame, start, end) ==
    [columns |-> frame.columns,
     index |-> SubSeq(frame.index, start + 1, end),
     cells |-> {c \in frame.cells :
                   \E i \in (start + 1)..end : frame.index[i] = c.dtx}]

Max(a, b) == IF a >= b THEN a ELSE b

\* line 91, times 7: n_days - n_days * len(np.unique(skipweekdays)) / 7.
DayNormalizer(n) == 7 * n - n * Cardinality(conf.skipweekdays)

\* pd.DataFrame(D) and .sort() (lines 161 and 76)
Frame(d, v) ==
    LET columns == Pruned(d)
        cells == CellsOf(d, v, columns)
    IN  [columns |-> columns,
         index |-> SortLabels({c.dtx : c \in cells}),
         cells |-> cells]

\* The caller passed no startend: the parameter is the default list of line 46
\* itself, so the assignments of lines 71 and 73 are made to that list.
OmitsStartend == conf.startend = <<<<>>, <<>>>>

\* lines 70-73
Bounds(se) ==
    <<IF se[1] = <<>> THEN <<1>> ELSE se[1],
      IF se[2] = <<>> THEN <<now>> ELSE se[2]>>

\* lines 77-80
Select(frame, se) ==
    Slice(frame, searchsorted(frame.index, se[1][1]), searchsorted(frame.index, se[2][1]))

Finish ==
    /\ pc = "parse"
    /\ D' = [f \in TagSet |-> IF f \in Pruned(D) THEN D[f] ELSE <<>>]
    /\ startend' = Bounds(startend)
    /\ \E sel \in {Select(Frame(D, V), Bounds(startend))} :
          /\ selfD' = sel
          /\ IF sel.index = <<>>
             THEN \* line 82: index.min() of an empty index
                  /\ pc' = "raised"
                  /\ exc' = "error at line 82"
                  /\ UNCHANGED <<rng, n_days, day_normalizer>>
             ELSE \E lo \in {sel.index[1]}, hi \in {sel.index[Len(sel.index)]} :
                  /\ pc' = "loaded"
                  /\ rng' = <<Date(lo), Date(hi)>>
                  /\ n_days' = Max(1, (hi - lo) \div DaySecs)
                  /\ day_normalizer' = DayNormalizer(Max(1, (hi - lo) \div DaySecs))
                  /\ UNCHANGED exc
    /\ UNCHANGED <<conf, tag, V, pings, now, loads, lexvars, anavars>>
    /\ default_startend' = IF OmitsStartend THEN Bounds(startend) ELSE default_startend

Next ==
    \/ \E line \in Lines : ParseLine(line)
    \/ Finish

(***************************************************************************)
(* Two constructions of TagTimeLog in one process, the second one later    *)
(* than the first, each without a startend argument.                       *)
(***************************************************************************)
MaxLoads == 2

\* datetime.datetime.now() at the first construction: Mon 2001-09-17 00:00:00,
\* before the last timestamp of the log
EarlyNow == (Monday + 7) * DaySecs

InitReload ==
    /\ conf \in {c \in Configs : NoTagOptions(c) /\ NoCalendarOptions(c)}
    /\ Idle
    /\ now = EarlyNow
    /\ default_startend = <<<<>>, <<>>>>
    /\ loads = 1
    /\ startend = conf.startend
    /\ pc = "parse"
    /\ exc = "none"
    /\ tag = <<>>
    /\ D = [t \in TagSet |-> <<>>]
    /\ V = [t \in TagSet |-> <<>>]
    /\ pings = <<>>
    /\ selfD = NoFrame
    /\ rng = <<>>
    /\ n_days = 0
    /\ day_normalizer = 0

\* a line of the log as it is when it is read: no ping is stamped in the future
Logged(line) == line.blank \/ line.ts < now

\* TagTimeLog(...) is called again, later, with the same arguments: startend
\* is bound to the default list of line 46 as the earlier call left it
Reload ==
    /\ pc \in {"loaded", "raised"}
    /\ loads < MaxLoads
    /\ now < Now
    /\ now' = Now
    /\ loads' = loads + 1
    /\ startend' = IF OmitsStartend THEN default_startend ELSE conf.startend
    /\ pc' = "parse"
    /\ exc' = "none"
    /\ tag' = <<>>
    /\ D' = [t \in TagSet |-> <<>>]
    /\ V' = [t \in TagSet |-> <<>>]
    /\ pings' = <<>>
    /\ selfD' = NoFrame
    /\ rng' = <<>>
    /\ n_days' = 0
    /\ day_normalizer' = 0
    /\ UNCHANGED <<conf, default_startend, lexvars, anavars>>

NextReload ==
    \/ \E line \in Lines : Logged(line) /\ ParseLine(line)
    \/ Finish
    \/ Reload

SpecReload == InitReload /\ [][NextReload]_vars

(***************************************************************************)
(* The tokenizer of _parse_file (lines 113-117) on the characters of a     *)
(* line.  A line is a sequence of one-character strings, a token likewise. *)
(***************************************************************************)
MaxChars == 4

Chars == {"a", "b", " ", "+", "[", "]"}

\* the lines of at most n characters
RECURSIVE Texts(_)
Texts(n) ==
    IF n = 0 THEN {<<>>}
    ELSE LET shorter == Texts(n - 1)
         IN  shorter \cup {Append(t, c) : t \in {u \in shorter : Len(u) = n - 1}, c \in Chars}

\* a timestamp, here the digit 1, then a blank and the rest of the line; the
\* line may begin with a '+' marker
RawLines ==
    {prefix \o <<"1", " ">> \o rest : prefix \in {<<>>, <<"+">>}, rest \in Texts(MaxChars)}

Drop(s, n) == SubSeq(s, n + 1, Len(s))

\* the length of the leading whitespace of s (\s*)
RECURSIVE Blanks(_)
Blanks(s) == IF s # <<>> /\ Head(s) = " " THEN 1 + Blanks(Tail(s)) ELSE 0

\* the length of the match of \s*\[.*?\] at the start of s, 0 without a match
AnnotationAt(s) ==
    LET w == Blanks(s)
        closing == {j \in (w + 2)..Len(s) : s[j] = "]"}
    IN  IF w < Len(s) /\ s[w + 1] = "[" /\ closing # {}
        THEN CHOOSE j \in closing : \A k \in closing : j <= k
        ELSE 0

\* the length of the match of \s*\+ at the start of s, 0 without a match
PlusAt(s) ==
    LET w == Blanks(s)
    IN  IF w < Len(s) /\ s[w + 1] = "+" THEN w + 1 ELSE 0

\* re.sub(pattern, '', s): every match, leftmost first, is removed
RECURSIVE SubAnnotations(_)
SubAnnotations(s) ==
    IF s = <<>> THEN <<>>
    ELSE IF AnnotationAt(s) > 0 THEN SubAnnotations(Drop(s, AnnotationAt(s)))
    ELSE <<Head(s)>> \o SubAnnotations(Tail(s))

RECURSIVE SubPluses(_)
SubPluses(s) ==
    IF s = <<>> THEN <<>>
    ELSE IF PlusAt(s) > 0 THEN SubPluses(Drop(s, PlusAt(s)))
    ELSE <<Head(s)>> \o SubPluses(Tail(s))

RECURSIVE StripRight(_)
StripRight(s) ==
    IF s # <<>> /\ s[Len(s)] = " " THEN StripRight(SubSeq(s, 1, Len(s) - 1)) ELSE s

\* str.strip()
Strip(s) == StripRight(Drop(s, Blanks(s)))

\* re.split(r'\s+', s) of a stripped line; the empty line gives ['']
RECURSIVE Split(_, _)
Split(s, token) ==
    IF s = <<>> THEN <<token>>
    ELSE IF Head(s) = " " THEN <<token>> \o Split(Drop(s, Blanks(s)), <<>>)
    ELSE Split(Tail(s), Append(token, Head(s)))

\* lines 113-117
Tokenize(line0) == Split(Strip(SubPluses(SubAnnotations(line0))), <<>>)

InitLex ==
    /\ conf \in {c \in Configs : NoTagOptions(c) /\ NoCalendarOptions(c)
                                  /\ ~c.smooth /\ c.multitag = "first"}
    /\ raw \in RawLines
    /\ fields = <<>>
    /\ out = NoOut
    /\ nops = 0
    /\ now = Now
    /\ default_startend = <<<<>>, <<>>>>
    /\ loads = 1
    /\ startend = conf.startend
    /\ pc = "lex"
    /\ exc = "none"
    /\ tag = <<>>
    /\ D = [t \in TagSet |-> <<>>]
    /\ V = [t \in TagSet |-> <<>>]
    /\ pings = <<>>
    /\ selfD = NoFrame
    /\ rng = <<>>
    /\ n_days = 0
    /\ day_normalizer = 0

\* lines 113-117 for the line read at line 112
Lex ==
    /\ pc = "lex"
    /\ fields' = Tokenize(raw)
    /\ pc' = "lexed"
    /\ UNCHANGED <<conf, startend, exc, tag, D, V, pings, selfD, rng, n_days,
                   day_normalizer, clockvars, raw, anavars>>

NextLex == Lex

SpecLex == InitLex /\ [][NextLex]_vars

\* The log's timestamps and the jitter are such that no tag has two samples
\* with one timestamp (pandas cannot align a duplicated index).
NoDuplicateLabels ==
    \A t \in TagSet : \A i, j \in DOMAIN D[t] : D[t][i].dtx = D[t][j].dtx => i = j

(***************************************************************************)
(* Vocabulary of the properties.                                           *)
(***************************************************************************)
RECURSIVE SumOver(_, _)
\* the sum of f[x] over the x of the finite set S
SumOver(S, f) ==
    IF S = {} THEN 0
    ELSE LET x == CHOOSE x \in S : TRUE IN f[x] + SumOver(S \ {x}, f)

\* the pings that reached the tag resolution of lines 124-137
Resolved == {i \in DOMAIN pings : pings[i].outcome = "ok"}

\* the tags of a line in the order they are written, without the excluded ones
Written(i) == SelectSeq(pings[i].line.tags, LAMBDA x : x \notin conf.skiptags)

\* the positions in D[t] and V[t] of the samples ping i stored for tag t
SamplesOf(i, t) == {j \in DOMAIN D[t] : D[t][j].ping = i}

\* the summed weight (times WSum) ping i stored for tag t
Stored(i, t) == SumOver(SamplesOf(i, t), V[t])

\* the kernel positions whose synthetic timestamp passes the filter of 146-150
PassingOffsets(i) ==
    {k \in DOMAIN offsetlist : Passes(pings[i].line.ts + offsetlist[k])}

\* the summed weight (times WSum) of tag t in the loaded store
ColumnWeight(t) ==
    LET S == {c \in selfD.cells : c.tag = t}
    IN  SumOver(S, [c \in S |-> c.v])

ColumnCount(t) == Cardinality({c \in selfD.cells : c.tag = t})

\* the number of pings _parse_file resolved to tag t
NPings(t) == Cardinality({i \in Resolved : t \in Range(pings[i].tags)})

\* the loop over the lines ran to its end, so lines 153-91 ran
ParseCompleted == pc = "loaded" \/ (pc = "raised" /\ exc = "error at line 82")

RemapConfigured == DOMAIN conf.maptags # {}

(***************************************************************************)
(* The analysis operations (lines 163-555) up to the frame they plot from. *)
(* A tag list is a set of names, None is << >> and a value v is <<v>>.     *)
(***************************************************************************)
MaxOps == 2

\* the options of the analysed loads: no filter, no smoothing, every tag of a
\* ping counted in full, with and without obfuscation
AnalysisConfigs ==
    {[c EXCEPT !.obfuscate = o] :
        c \in {k \in Configs : /\ NoTagOptions(k) /\ NoCalendarOptions(k)
                                /\ ~k.smooth /\ k.multitag = "double"},
        o \in BOOLEAN}

\* the lines of the analysed logs
LinesA ==
    {l \in Lines : /\ ~l.blank
                   /\ l.ts \in {1000000000, 1000002700, 1000080300}
                   /\ l.tags \in {<<"work">>, <<"work", "meeting">>, <<"rest", "meeting">>}}

InitAnalysis ==
    /\ conf \in AnalysisConfigs
    /\ Idle
    /\ now = Now
    /\ default_startend = <<<<>>, <<>>>>
    /\ loads = 1
    /\ startend = conf.startend
    /\ pc = "parse"
    /\ exc = "none"
    /\ tag = <<>>
    /\ D = [t \in TagSet |-> <<>>]
    /\ V = [t \in TagSet |-> <<>>]
    /\ pings = <<>>
    /\ selfD = NoFrame
    /\ rng = <<>>
    /\ n_days = 0
    /\ day_normalizer = 0

\* the operations that begin with the prologue of lines 165-170
PlotOps == {"scatter", "pie", "trend", "hour_sums", "hour_of_the_week",
            "day_of_the_week_sums"}

Ops == PlotOps \cup {"trend_ratio", "top_n_tags"}

\* the operations that replace tags=None by every tag (lines 351-352, 383-384,
\* 426-427)
DefaultsToAll == {"hour_sums", "hour_of_the_week", "day_of_the_week_sums"}

\* the operations that call _obfuscate on the frame they selected (lines 495,
\* 530); the others call it on a resampled or grouped frame
ObfuscatesSelection == {"scatter", "pie"}

TagArgs == {<<>>, <<{"work"}>>, <<{"work", "meeting"}>>}

TopArgs == {<<>>, <<1>>}

\* outcomes of the random names of line 375
CodeTables ==
    {[meeting |-> "K3QZ", prog |-> "7WPA", rest |-> "M0XE", work |-> "T9RB"],
     [meeting |-> "D4LU", prog |-> "Y2HC", rest |-> "5NVG", work |-> "J8SF"]}

\* the tag a column was created for; rename keeps the position of a column
Original(k) ==
    IF k \in TagSet THEN k
    ELSE CHOOSE t \in TagSet : \E codes \in CodeTables : codes[t] = k

\* lines 466-480; the sum of a column without a value is NaN (line 469)
top_n_tags(n, extra_tags) ==
    LET keys == {k \in selfD.columns : \E c \in selfD.cells : c.tag = k}
        Before(a, b) ==
            \/ ColumnWeight(a) > ColumnWeight(b)
            \/ ColumnWeight(a) = ColumnWeight(b) /\ Rank(Original(a)) < Rank(Original(b))
        first == {k \in keys : Cardinality({a \in keys : Before(a, k)}) < n}
    IN  IF extra_tags = <<>> THEN first ELSE first \cup extra_tags[1]

\* tags after lines 165-166 and, where present, 351-352
Selected(op, tags, top_n) ==
    LET given == IF top_n # <<>> THEN <<top_n_tags(top_n[1], tags)>> ELSE tags
    IN  IF given = <<>> /\ op \in DefaultsToAll
        THEN <<top_n_tags(1000, <<>>)>>
        ELSE given

\* self.D[tags]: a new frame with the columns tags
SubFrame(frame, S) ==
    [columns |-> S, index |-> frame.index, cells |-> {c \in frame.cells : c.tag \in S}]

\* self.D[[t for t in self.D.keys() if t not in tags]].sum(axis=1), written
\* to the column 'other' of frame (lines 169-170)
WithOther(frame, S) ==
    LET rest(x) == {c \in selfD.cells : c.dtx = x /\ c.tag \notin S}
    IN  [columns |-> frame.columns \cup {"other"},
         index |-> frame.index,
         cells |-> frame.cells \cup
                   {[dtx |-> x, tag |-> "other", ping |-> 0,
                     v |-> SumOver(rest(x), [c \in rest(x) |-> c.v])] :
                        x \in {y \in Range(selfD.index) : rest(y) # {}}}]

\* lines 368-377 when self.obfuscate is set
Renamed(frame, codes) ==
    LET k2(k) == IF k = "other" THEN k ELSE codes[Original(k)]
    IN  [columns |-> {k2(k) : k \in frame.columns},
         index |-> frame.index,
         cells |-> {[c EXCEPT !.tag = k2(c.tag)] : c \in frame.cells}]

Result(op, status, tags, other, frame) ==
    [op |-> op, status |-> status, tags |-> tags, other |-> other, frame |-> frame]

\* one call of an analysis operation on the loaded log
Analyze(op, tags, top_n, other) ==
    /\ pc = "loaded"
    /\ nops < MaxOps
    /\ nops' = nops + 1
    /\ UNCHANGED <<conf, startend, pc, exc, tag, D, V, pings, rng, n_days,
                   day_normalizer, clockvars, lexvars>>
    /\ IF op = "top_n_tags"
       THEN /\ top_n # <<>>
            /\ out' = Result(op, "ok", <<top_n_tags(top_n[1], tags)>>, FALSE, NoFrame)
            /\ UNCHANGED selfD
       ELSE IF op = "trend_ratio"
       THEN /\ top_n = <<>> /\ ~other
            /\ UNCHANGED selfD
            /\ IF tags = <<>>
               THEN \* line 212: len(None)
                    out' = Result(op, "TypeError", tags, FALSE, NoFrame)
               ELSE IF ~(tags[1] \subseteq selfD.columns)
               THEN out' = Result(op, "KeyError", tags, FALSE, NoFrame)
               ELSE out' = Result(op, "ok", tags, FALSE, SubFrame(selfD, tags[1]))
       ELSE \E sel \in {Selected(op, tags, top_n)} :
            IF sel # <<>> /\ ~(sel[1] \subseteq selfD.columns)
            THEN \* self.D[tags] with a name that is not a column
                 /\ out' = Result(op, "KeyError", sel, other, NoFrame)
                 /\ UNCHANGED selfD
            ELSE IF other /\ sel = <<>>
            THEN \* `t not in tags` with tags None
                 /\ out' = Result(op, "TypeError", sel, other, NoFrame)
                 /\ UNCHANGED selfD
            ELSE \E frame \in {IF sel = <<>> THEN selfD
                               ELSE IF other THEN WithOther(SubFrame(selfD, sel[1]), sel[1])
                               ELSE SubFrame(selfD, sel[1])} :
                 IF conf.obfuscate
                 THEN \E codes \in CodeTables :
                      /\ out' = Result(op, "ok", sel, other, Renamed(frame, codes))
                      /\ selfD' = IF op \in ObfuscatesSelection /\ sel = <<>>
                                  THEN \* D is self.D itself: renamed in place
                                       Renamed(frame, codes)
                                  ELSE selfD
                 ELSE /\ out' = Result(op, "ok", sel, other, frame)
                      /\ UNCHANGED selfD

NextAnalysis ==
    \/ \E line \in LinesA : ParseLine(line)
    \/ Finish
    \/ \E op \in Ops, tags \in TagArgs, top_n \in TopArgs, other \in BOOLEAN :
          Analyze(op, tags, top_n, other)

SpecAnalysis == InitAnalysis /\ [][NextAnalysis]_vars

(***************************************************************************)
(* C1.  With a remap table configured, the resolved tag set of every ping  *)
(* is the set of the remap targets of all its non-excluded tags.           *)
(***************************************************************************)
C1_EveryTagRemapped ==
    RemapConfigured =>
        \A i \in Resolved :
            Range(pings[i].resolved) = {MapTag(t) : t \in Range(pings[i].excl)}

(***************************************************************************)
(* C2.  A line whose tag set is empty after exclusion stores no sample     *)
(* under any tag, whatever was parsed before it.                           *)
(***************************************************************************)
C2_EmptyPingStoresNothing ==
    pc = "parse" =>
        \A i \in DOMAIN pings :
            (~pings[i].line.blank /\ Written(i) = <<>>) =>
                \A t \in TagSet : SamplesOf(i, t) = {}

(***************************************************************************)
(* C3.  No sample of the loaded store has a timestamp whose calendar date  *)
(* is an excluded day.                                                     *)
(***************************************************************************)
C3_NoSampleOnDroppedDay ==
    pc = "loaded" => \A c \in selfD.cells : Date(c.dtx) \notin conf.dropdays

(***************************************************************************)
(* C4.  A blank line is skipped: reading it does not abort the load.       *)
(***************************************************************************)
C4_BlankLineSkipped ==
    \A i \in DOMAIN pings :
        pings[i].line.blank => ~(pc = "raised" /\ pings[i].outcome = "raised")

(***************************************************************************)
(* C5.  Smoothing off, policy 'first', no exclusions, no date bounds.      *)
(***************************************************************************)
C5_Case ==
    /\ ~conf.smooth
    /\ conf.multitag = "first"
    /\ conf.skiptags = {}
    /\ conf.skipweekdays = {}
    /\ conf.includehours = <<0, 24>>
    /\ conf.dropdays = {}
    /\ conf.startend = <<<<>>, <<>>>>

C6_AtLeastTwoSamples ==
    pc = "loaded" => \A t \in selfD.columns : ColumnCount(t) >= 2

C8_NormalizerCountsCalendarDays ==
    pc = "loaded" =>
        LET span == Date(selfD.index[Len(selfD.index)]) - Date(selfD.index[1]) + 1
        IN  day_normalizer = 7 * span - span * Cardinality(conf.skipweekdays)

(***************************************************************************)
(* C9.  When no sample survives loading, the construction still completes  *)
(* without raising.                                                        *)
(***************************************************************************)
C9_EmptyLoadCompletes ==
    (pc # "parse" /\ selfD.cells = {} /\ (\A i \in DOMAIN pings : pings[i].outcome # "raised"))
        => pc = "loaded"

(***************************************************************************)
(* C10.  Under 'first' a ping stores samples under one tag only, the tag   *)
(* written first on its line once the excluded tags are removed.           *)
(***************************************************************************)
C10_FirstWrittenTag ==
    (pc = "parse" /\ conf.multitag = "first" /\ ~RemapConfigured) =>
        \A i \in Resolved : \A t \in TagSet :
            SamplesOf(i, t) # {} => t = Written(i)[1]

(***************************************************************************)
(* C11.  The parser strips only a trailing bracketed annotation and        *)
(* leading '+' markers; every whitespace-separated token after the         *)
(* timestamp is one tag, unchanged: a '+' in or before a later tag neither *)
(* alters the tag nor merges it with the token before it.                  *)
(***************************************************************************)
\* s without its trailing bracketed annotation, when it ends with one
WithoutTrailingAnnotation(s) ==
    LET t == StripRight(s)
        opening == {j \in DOMAIN t : t[j] = "["}
    IN  IF t # <<>> /\ t[Len(t)] = "]" /\ opening # {}
        THEN StripRight(SubSeq(t, 1, (CHOOSE j \in opening : \A k \in opening : k <= j) - 1))
        ELSE s

\* s without the '+' markers (and blanks) it begins with
RECURSIVE WithoutLeadingPluses(_)
WithoutLeadingPluses(s) ==
    IF PlusAt(s) > 0 THEN WithoutLeadingPluses(Drop(s, PlusAt(s))) ELSE s

C11_TokensPassedThrough ==
    pc = "lexed" =>
        fields = Split(Strip(WithoutLeadingPluses(WithoutTrailingAnnotation(raw))), <<>>)

(***************************************************************************)
(* C12.  After a load with bounds (start, end) the store is ordered by     *)
(* timestamp, also when smoothing put a sample before one of an earlier    *)
(* ping, and holds exactly the samples t of the parsed tags with           *)
(* start <= t < end: a sample at start is kept, one at end is dropped.     *)
(***************************************************************************)
\* the samples _parse_file handed to the frame of line 161
Parsed == CellsOf(D, V, Pruned(D))

C12_StoreIsOrderedSelection ==
    pc = "loaded" =>
        /\ \A i, j \in DOMAIN selfD.index : i < j => selfD.index[i] < selfD.index[j]
        /\ Range(selfD.index) = {c.dtx : c \in selfD.cells}
        /\ selfD.cells = {c \in Parsed : startend[1][1] <= c.dtx /\ c.dtx < startend[2][1]}

\* a tag whose samples were appended out of order, one of them stamped at the
\* start bound and kept, another stamped at the end bound and dropped
C12_Witness ==
    /\ pc = "loaded"
    /\ \E t \in selfD.columns :
          /\ \E i, j \in DOMAIN D[t] : i < j /\ D[t][j].dtx < D[t][i].dtx
          /\ \E c \in selfD.cells : c.tag = t /\ c.dtx = startend[1][1]
          /\ \E c \in Parsed \ selfD.cells : c.tag = t /\ c.dtx = startend[2][1]

(***************************************************************************)
(* C15.  Every sample _parse_file stores has a synthetic timestamp (ping   *)
(* instant plus kernel offset) whose weekday is not excluded and whose     *)
(* clock hour h satisfies startHour <= h < endHour.  The test is made on   *)
(* the synthetic timestamp, not on the ping instant: a copy at hour        *)
(* startHour is kept, a copy at hour endHour is rejected.                  *)
(***************************************************************************)
C15_StoredSamplesPassCalendar ==
    \A t \in TagSet : \A j \in DOMAIN D[t] :
        /\ Weekday(D[t][j].dtx) \notin conf.skipweekdays
        /\ conf.includehours[1] <= Hour(D[t][j].dtx)
        /\ Hour(D[t][j].dtx) < conf.includehours[2]

\* a ping at hour endHour, itself outside the window, with a stored copy in
\* hour startHour of the next day and none in hour endHour
C15_Witness ==
    /\ pc = "parse"
    /\ conf.smooth
    /\ \E i \in Resolved :
          /\ Hour(pings[i].line.ts) = conf.includehours[2]
          /\ \E t \in TagSet : \E j \in SamplesOf(i, t) :
                Hour(D[t][j].dtx) = conf.includehours[1]
          /\ \E k \in DOMAIN offsetlist :
                Hour(pings[i].line.ts + offsetlist[k]) = conf.includehours[2]
          /\ \A t \in TagSet : \A j \in SamplesOf(i, t) :
                Hour(D[t][j].dtx) # conf.includehours[2]

(***************************************************************************)
(* C16.  Successive loads in one process are independent: a TagTimeLog     *)
(* constructed without bounds selects every sample from the epoch up to    *)
(* the moment of that construction, also when an earlier TagTimeLog was    *)
(* constructed without bounds; pings stamped between the two constructions *)
(* are in the second store.                                                *)
(***************************************************************************)
C16_DefaultBoundsOfThisLoad ==
    pc = "loaded" /\ OmitsStartend =>
        /\ startend = <<<<1>>, <<now>>>>
        /\ selfD.cells = {c \in Parsed : 1 <= c.dtx /\ c.dtx < now}

(***************************************************************************)
(* C13.  Once a load has completed the store is read-only: any sequence of *)
(* analysis operations, with any options (tags=None, other=True and        *)
(* obfuscate=True included), leaves the store's tag names and every tag's  *)
(* samples as the load left them.                                          *)
(***************************************************************************)
C13_StoreReadOnly ==
    pc = "loaded" => selfD = Select(Frame(D, V), startend)

(***************************************************************************)
(* C14.  Whenever 'other' is requested in scatter, pie, trend, hour_sums,  *)
(* hour_of_the_week or day_of_the_week_sums, for any selection of stored   *)
(* tags and for tags=None, the operation succeeds, the 'other' series is,  *)
(* per timestamp, the sum of the weights of the stored tags outside the    *)
(* selection, and the selected tags' series are those of the store.        *)
(***************************************************************************)
C14_OtherIsSumOfUnselected ==
    out.op \in PlotOps /\ out.other /\ out.status # "KeyError" =>
        /\ out.status = "ok"
        /\ "other" \in out.frame.columns
        /\ \A x \in Range(selfD.index) :
              LET rest == {c \in selfD.cells : c.dtx = x /\ c.tag \notin out.tags[1]}
                  sums == {c \in out.frame.cells : c.dtx = x /\ c.tag = "other"}
              IN  SumOver(sums, [c \in sums |-> c.v]) = SumOver(rest, [c \in rest |-> c.v])
        /\ ~conf.obfuscate =>
              \A t \in out.tags[1] :
                  {c \in out.frame.cells : c.tag = t} = {c \in selfD.cells : c.tag = t}

Spec == Init /\ [][Next]_vars
====
